---- MODULE Spec2Model ----
(***************************************************************************)
(* Model of posacs-module.c: an Emacs dynamic module that binds the POSIX  *)
(* getenv / setenv / unsetenv calls as posacs--getenv, posacs--setenv and  *)
(* posacs--unsetenv.                                                       *)
(*                                                                         *)
(* Host strings are byte sequences that may hold any byte, NUL included.   *)
(* The C library reads a buffer as a C string: the bytes before the first  *)
(* NUL.  The process environment is the libc "environ": a set of entries   *)
(* name=value.  Every call of a bound function is one step; it leaves in   *)
(* "last" what it was given, what it did and the environment it started    *)
(* from, until the host takes the result and goes on.                      *)
(***************************************************************************)
EXTENDS Integers, Sequences, FiniteSets, TLC

VARIABLES
    rc,        \* return code of emacs_module_init, NotLoaded before the load
    sizes,     \* the (runtime->size, env->size) the host handed to the load
    fsets,     \* the fset calls made by bind_func, in order
    environ,   \* the process environment: a set of "name=value" entries
    live,      \* number of malloc'ed marshaling buffers not yet freed
    last       \* the last call of a bound function and what it did

vars == <<rc, sizes, fsets, environ, live, last>>

-----------------------------------------------------------------------------
(* Bounds of the model *)

MaxNameLen == 2
MaxValLen == 1
MaxLive == 4
SizeSlack == 5

-----------------------------------------------------------------------------
(* Bytes and C strings *)

\* The bytes host strings are built from: NUL, '=' and 'a'.
Alphabet == {0, 61, 97}

SeqsUpTo(S, n) == UNION {[1..m -> S] : m \in 0..n}

\* Index of the first byte b in s, Len(s) + 1 when there is none.
RECURSIVE FirstIndex(_, _, _)
FirstIndex(s, b, i) ==
    IF i > Len(s) THEN Len(s) + 1
    ELSE IF s[i] = b THEN i
    ELSE FirstIndex(s, b, i + 1)

\* What a char* denotes to the C library: the bytes before the first NUL.
CStr(mem) == SubSeq(mem, 1, FirstIndex(mem, 0, 1) - 1)

strlen(mem) == Len(CStr(mem))

IsPrefix(p, s) == Len(p) <= Len(s) /\ SubSeq(s, 1, Len(p)) = p

-----------------------------------------------------------------------------
(* The host (emacs_env) primitives the module uses *)

intern(n) == [type |-> "symbol", name |-> n, bytes |-> <<>>]

make_string(mem, len) == [type |-> "string", name |-> "", bytes |-> SubSeq(mem, 1, len)]

make_integer == [type |-> "integer", name |-> "", bytes |-> <<>>]

type_of(val) == intern(val.type)

eq(a, b) == a = b

LISP_IS_STRING(val) == eq(type_of(val), intern("string"))

LISP_NIL == intern("nil")

LISP_T == intern("t")

LISP_STR(mem) == make_string(mem, strlen(mem))

\* copy_string_contents, when it succeeds: the string's bytes and a
\* terminating NUL; the size it reports is the length of that.
copy_string_contents(val) == val.bytes \o <<0>>

\* How the current call ends for the host: an ordinary return, or a pending
\* non-local exit raised by non_local_exit_signal (symbol, data).
NoExit == [kind |-> "return", sym |-> LISP_NIL, data |-> LISP_NIL]

non_local_exit_signal(sym, data) == [kind |-> "signal", sym |-> sym, data |-> data]

\* A char*: NULL, or a malloc'ed buffer with its bytes.
NULLPTR == [null |-> TRUE, mem |-> <<>>]

Buffer(mem) == [null |-> FALSE, mem |-> mem]

\* What the host and the allocator do during one string extraction.
Outcomes == {"ok", "copy_size", "malloc", "copy_fill"}

-----------------------------------------------------------------------------
(* libc: getenv, setenv, unsetenv over environ *)

Entry(name, value) == name \o <<61>> \o value

EntryName(e) == SubSeq(e, 1, FirstIndex(e, 61, 1) - 1)

ValidName(name) == name # <<>> /\ FirstIndex(name, 61, 1) > Len(name)

\* glibc getenv: the first entry that starts with name and has '=' right
\* after it; the empty name matches nothing.
getenv(E, name) ==
    LET hits == {e \in E : IsPrefix(name \o <<61>>, e)}
    IN  IF name = <<>> \/ hits = {} THEN NULLPTR
        ELSE LET e == CHOOSE x \in hits : TRUE
             IN  Buffer(SubSeq(e, Len(name) + 2, Len(e)))

\* setenv (name, value, overwrite): -1 (EINVAL) on an empty name or one with
\* '=', -1 (ENOMEM) when nomem; else 0, the entry replaced or added.
setenv(E, name, value, overwrite, nomem) ==
    IF ~ValidName(name) \/ nomem THEN [res |-> -1, env |-> E]
    ELSE IF overwrite = 0 /\ \E e \in E : EntryName(e) = name
         THEN [res |-> 0, env |-> E]
    ELSE [res |-> 0,
          env |-> {e \in E : EntryName(e) # name} \cup {Entry(name, value)}]

\* unsetenv (name): -1 (EINVAL) on an empty name or one with '='; else 0.
unsetenv(E, name) ==
    IF ~ValidName(name) THEN [res |-> -1, env |-> E]
    ELSE [res |-> 0, env |-> {e \in E : EntryName(e) # name}]

-----------------------------------------------------------------------------
(* string_from_lisp *)

\* An extraction that was not reached.
NotCalled == [called |-> FALSE, how |-> "ok", ptr |-> NULLPTR,
              exit |-> NoExit, mallocs |-> 0, frees |-> 0]

\* string_from_lisp that returns 0 on a failed malloc without signalling.
string_from_lisp_silent(val, how) ==
    IF how = "copy_size" \/ how = "malloc"
    THEN [called |-> TRUE, how |-> how, ptr |-> NULLPTR,
          exit |-> NoExit, mallocs |-> 0, frees |-> 0]
    ELSE IF how = "copy_fill"
    THEN [called |-> TRUE, how |-> how, ptr |-> NULLPTR,
          exit |-> NoExit, mallocs |-> 1, frees |-> 1]
    ELSE [called |-> TRUE, how |-> how, ptr |-> Buffer(copy_string_contents(val)),
          exit |-> NoExit, mallocs |-> 1, frees |-> 0]

\* string_from_lisp that forgets free (str) when the fill fails.
string_from_lisp_nofree(val, how) ==
    IF how = "copy_size"
    THEN [called |-> TRUE, how |-> how, ptr |-> NULLPTR,
          exit |-> NoExit, mallocs |-> 0, frees |-> 0]
    ELSE IF how = "malloc"
    THEN [called |-> TRUE, how |-> how, ptr |-> NULLPTR,
          exit |-> non_local_exit_signal(intern("memory-full"), LISP_NIL),
          mallocs |-> 0, frees |-> 0]
    ELSE IF how = "copy_fill"
    THEN [called |-> TRUE, how |-> how, ptr |-> NULLPTR,
          exit |-> NoExit, mallocs |-> 1, frees |-> 0]
    ELSE [called |-> TRUE, how |-> how, ptr |-> Buffer(copy_string_contents(val)),
          exit |-> NoExit, mallocs |-> 1, frees |-> 0]

\* string_from_lisp (env, val) under outcome how: the pointer returned, the
\* non-local exit it raised, and the mallocs and frees it made.
string_from_lisp(val, how) ==
    IF how = "copy_size"
    THEN [called |-> TRUE, how |-> how, ptr |-> NULLPTR,
          exit |-> NoExit, mallocs |-> 0, frees |-> 0]
    ELSE IF how = "malloc"
    THEN [called |-> TRUE, how |-> how, ptr |-> NULLPTR,
          exit |-> non_local_exit_signal(intern("memory-full"), LISP_NIL),
          mallocs |-> 0, frees |-> 0]
    ELSE IF how = "copy_fill"
    THEN [called |-> TRUE, how |-> how, ptr |-> NULLPTR,
          exit |-> NoExit, mallocs |-> 1, frees |-> 1]
    ELSE [called |-> TRUE, how |-> how, ptr |-> Buffer(copy_string_contents(val)),
          exit |-> NoExit, mallocs |-> 1, frees |-> 0]

\* Buffers an extraction leaves allocated.
Kept(x) == x.mallocs - x.frees

\* if (p) free (p): the number of buffers it frees.
FreeIf(p) == IF p.null THEN 0 ELSE 1

-----------------------------------------------------------------------------
(* The three bound functions.  h is what the host, the allocator and libc   *)
(* do during the call: h.f0 and h.f1 are the outcomes of the extractions of *)
(* args[0] and args[1], h.nomem makes setenv fail with ENOMEM.              *)

HostBehaviour(f0, f1, nomem) == [f0 |-> f0, f1 |-> f1, nomem |-> nomem]

HostOk == HostBehaviour("ok", "ok", FALSE)

\* The behaviours that differ for a call with one extraction, and with two.
HostBehaviours1 == {HostBehaviour(o, "ok", FALSE) : o \in Outcomes}

HostBehaviours2 ==
    HostBehaviours1 \cup {HostBehaviour("ok", o, FALSE) : o \in Outcomes}
                    \cup {HostBehaviour("ok", "ok", TRUE)}

CallResult(op, args, x0, x1, posix, res, ret, E, leaked) ==
    [op |-> op, args |-> args, x0 |-> x0, x1 |-> x1, posix |-> posix,
     res |-> res, ret |-> ret,
     exit |-> IF x0.exit.kind = "signal" THEN x0.exit ELSE x1.exit,
     env |-> E, leaked |-> leaked]

posacs_getenv(E, args, h) ==
    LET var   == NULLPTR    \* the function-scope var: never assigned
        isstr == LISP_IS_STRING(args[1])
        x0    == IF isstr THEN string_from_lisp(args[1], h.f0) ELSE NotCalled
        var_i == x0.ptr     \* the var declared inside the if
        val   == IF ~var_i.null THEN getenv(E, CStr(var_i.mem)) ELSE NULLPTR
        ret   == IF ~val.null THEN LISP_STR(val.mem) ELSE LISP_NIL
    IN  CallResult("getenv", args, x0, NotCalled,
                   IF ~var_i.null THEN "getenv" ELSE "none", 0,
                   ret, E, Kept(x0) - FreeIf(var))

\* posacs_setenv without the LISP_IS_STRING test of args[1].
posacs_setenv_unchecked(E, args, h) ==
    LET var   == NULLPTR
        val   == NULLPTR
        x0    == IF LISP_IS_STRING(args[1])
                 THEN string_from_lisp(args[1], h.f0) ELSE NotCalled
        var_i == x0.ptr
        x1    == IF ~var_i.null
                 THEN string_from_lisp(args[2], h.f1) ELSE NotCalled
        val_i == x1.ptr
        reach == ~var_i.null /\ ~val_i.null
        s     == IF reach
                 THEN setenv(E, CStr(var_i.mem), CStr(val_i.mem), 1, h.nomem)
                 ELSE [res |-> -1, env |-> E]
        ret   == IF reach /\ s.res = 0 THEN LISP_T ELSE LISP_NIL
    IN  CallResult("setenv", args, x0, x1,
                   IF reach THEN "setenv" ELSE "none", IF reach THEN s.res ELSE 0,
                   ret, s.env, Kept(x0) + Kept(x1) - FreeIf(var) - FreeIf(val))

posacs_setenv(E, args, h) ==
    LET var   == NULLPTR    \* the function-scope var and val: never assigned
        val   == NULLPTR
        x0    == IF LISP_IS_STRING(args[1])
                 THEN string_from_lisp(args[1], h.f0) ELSE NotCalled
        var_i == x0.ptr
        x1    == IF ~var_i.null /\ LISP_IS_STRING(args[2])
                 THEN string_from_lisp(args[2], h.f1) ELSE NotCalled
        val_i == x1.ptr
        reach == ~var_i.null /\ ~val_i.null
        s     == IF reach
                 THEN setenv(E, CStr(var_i.mem), CStr(val_i.mem), 1, h.nomem)
                 ELSE [res |-> -1, env |-> E]
        ret   == IF reach /\ s.res = 0 THEN LISP_T ELSE LISP_NIL
    IN  CallResult("setenv", args, x0, x1,
                   IF reach THEN "setenv" ELSE "none", IF reach THEN s.res ELSE 0,
                   ret, s.env, Kept(x0) + Kept(x1) - FreeIf(var) - FreeIf(val))

\* posacs_unsetenv that returns t whatever unsetenv returned.
posacs_unsetenv_anyres(E, args, h) ==
    LET var   == NULLPTR
        x0    == IF LISP_IS_STRING(args[1])
                 THEN string_from_lisp(args[1], h.f0) ELSE NotCalled
        var_i == x0.ptr
        u     == IF ~var_i.null THEN unsetenv(E, CStr(var_i.mem))
                 ELSE [res |-> -1, env |-> E]
        ret   == IF ~var_i.null THEN LISP_T ELSE LISP_NIL
    IN  CallResult("unsetenv", args, x0, NotCalled,
                   IF ~var_i.null THEN "unsetenv" ELSE "none",
                   IF ~var_i.null THEN u.res ELSE 0,
                   ret, u.env, Kept(x0) - FreeIf(var))

\* posacs_unsetenv with the test of unsetenv's result inverted (the ! lost).
posacs_unsetenv_inverted(E, args, h) ==
    LET var   == NULLPTR
        x0    == IF LISP_IS_STRING(args[1])
                 THEN string_from_lisp(args[1], h.f0) ELSE NotCalled
        var_i == x0.ptr
        u     == IF ~var_i.null THEN unsetenv(E, CStr(var_i.mem))
                 ELSE [res |-> -1, env |-> E]
        ret   == IF ~var_i.null /\ u.res # 0 THEN LISP_T ELSE LISP_NIL
    IN  CallResult("unsetenv", args, x0, NotCalled,
                   IF ~var_i.null THEN "unsetenv" ELSE "none",
                   IF ~var_i.null THEN u.res ELSE 0,
                   ret, u.env, Kept(x0) - FreeIf(var))

posacs_unsetenv(E, args, h) ==
    LET var   == NULLPTR    \* the function-scope var: never assigned
        x0    == IF LISP_IS_STRING(args[1])
                 THEN string_from_lisp(args[1], h.f0) ELSE NotCalled
        var_i == x0.ptr
        u     == IF ~var_i.null THEN unsetenv(E, CStr(var_i.mem))
                 ELSE [res |-> -1, env |-> E]
        ret   == IF ~var_i.null /\ u.res = 0 THEN LISP_T ELSE LISP_NIL
    IN  CallResult("unsetenv", args, x0, NotCalled,
                   IF ~var_i.null THEN "unsetenv" ELSE "none",
                   IF ~var_i.null THEN u.res ELSE 0,
                   ret, u.env, Kept(x0) - FreeIf(var))

-----------------------------------------------------------------------------
(* Module load: emacs_module_init and bind_func *)

\* sizeof (struct emacs_runtime) and sizeof (emacs_env) of the build.
RuntimeSizeof == 24
EnvSizeof == 232

NotLoaded == -1

\* bind_func: the (fset NAME (make_function min max function doc)) it calls.
bind_func(name, min, max, function, docstring) ==
    [name |-> name, min |-> min, max |-> max, function |-> function,
     docstring |-> docstring]

\* The funcs[] table, up to its NULL terminator.
funcs ==
    << bind_func("posacs--getenv", 1, 1, "posacs_getenv", "getenv internal"),
       bind_func("posacs--setenv", 2, 2, "posacs_setenv", "setenv internal"),
       bind_func("posacs--unsetenv", 1, 1, "posacs_unsetenv", "unsetenv internal") >>

\* (size_t) size < n for a ptrdiff_t size and n = sizeof of a struct: the
\* cast leaves a size >= 0 as it is and turns a negative one into
\* 2^64 + size, which is above every sizeof, so the test is then false.
SizeTLess(size, n) == size >= 0 /\ size < n

\* emacs_module_init with the two failure codes exchanged.
emacs_module_init_swapped(runtime_size, env_size) ==
    IF SizeTLess(runtime_size, RuntimeSizeof) THEN [rc |-> 2, fsets |-> <<>>]
    ELSE IF SizeTLess(env_size, EnvSizeof) THEN [rc |-> 1, fsets |-> <<>>]
    ELSE [rc |-> 0, fsets |-> funcs]

emacs_module_init(runtime_size, env_size) ==
    IF SizeTLess(runtime_size, RuntimeSizeof) THEN [rc |-> 1, fsets |-> <<>>]
    ELSE IF SizeTLess(env_size, EnvSizeof) THEN [rc |-> 2, fsets |-> <<>>]
    ELSE [rc |-> 0, fsets |-> funcs]

\* The function the host finds in the function cell of symbol name: the one
\* of the last fset of that name.
FunctionCell(name) ==
    LET is == {i \in DOMAIN fsets : fsets[i].name = name}
    IN  IF is = {} THEN "void"
        ELSE fsets[CHOOSE i \in is : \A j \in is : j <= i].function

-----------------------------------------------------------------------------------------------------------------------------------------------------
(* The state machine *)

NameArgs == {make_string(b, Len(b)) : b \in SeqsUpTo(Alphabet, MaxNameLen)}
                \cup {LISP_NIL, make_integer}

ValueArgs == {make_string(b, Len(b)) : b \in SeqsUpTo(Alphabet, MaxValLen)}
                \cup {LISP_NIL, make_integer}

NoCall == CallResult("none", <<>>, NotCalled, NotCalled, "none", 0, LISP_NIL, {}, 0)

\* The environment the process starts with.
InitialEnvirons == { {}, {Entry(<<97>>, <<>>)} }

\* The host before it loads the module.
InitLoad ==
    /\ rc = NotLoaded
    /\ sizes = <<0, 0>>
    /\ fsets = <<>>
    /\ environ \in InitialEnvirons
    /\ live = 0
    /\ last = NoCall

\* The size fields (ptrdiff_t) a load is tried with: around the sizeof of
\* the struct the module was built with, and around zero, negative ones
\* included (the code accepts any value of the field).
LoadSizes(n) == ((0 - SizeSlack)..SizeSlack) \cup ((n - SizeSlack)..(n + SizeSlack))

\* The host loads the module, handing it a runtime and an environment of
\* some struct sizes.
Load ==
    /\ rc = NotLoaded
    /\ \E rs \in LoadSizes(RuntimeSizeof), es \in LoadSizes(EnvSizeof) :
          LET r == emacs_module_init(rs, es)
          IN  /\ rc' = r.rc
              /\ sizes' = <<rs, es>>
              /\ fsets' = r.fsets
    /\ UNCHANGED <<environ, live, last>>

SpecLoad == InitLoad /\ [][Load]_vars

\* The module loaded by the host it was built for.
Init ==
    /\ sizes = <<RuntimeSizeof, EnvSizeof>>
    /\ rc = emacs_module_init(sizes[1], sizes[2]).rc
    /\ fsets = emacs_module_init(sizes[1], sizes[2]).fsets
    /\ environ \in InitialEnvirons
    /\ live = 0
    /\ last = NoCall

\* The effect of a call whose result is r; last.env keeps the environment
\* the call started from.
Returns(r) ==
    /\ live + r.leaked <= MaxLive
    /\ last' = [r EXCEPT !.env = environ]
    /\ environ' = r.env
    /\ live' = live + r.leaked
    /\ UNCHANGED <<rc, sizes, fsets>>

EnvGet ==
    /\ last = NoCall
    /\ FunctionCell("posacs--getenv") = "posacs_getenv"
    /\ \E a \in NameArgs, h \in HostBehaviours1 :
          Returns(posacs_getenv(environ, <<a>>, h))

EnvSet ==
    /\ last = NoCall
    /\ FunctionCell("posacs--setenv") = "posacs_setenv"
    /\ \E a \in NameArgs, v \in ValueArgs, h \in HostBehaviours2 :
          Returns(posacs_setenv(environ, <<a, v>>, h))

EnvUnset ==
    /\ last = NoCall
    /\ FunctionCell("posacs--unsetenv") = "posacs_unsetenv"
    /\ \E a \in NameArgs, h \in HostBehaviours1 :
          Returns(posacs_unsetenv(environ, <<a>>, h))

\* The host takes the value (or the non-local exit) and goes on.
HostReturn ==
    /\ last # NoCall
    /\ last' = NoCall
    /\ UNCHANGED <<rc, sizes, fsets, environ, live>>

Next == EnvGet \/ EnvSet \/ EnvUnset \/ HostReturn

Spec == Init /\ [][Next]_vars

-----------------------------------------------------------------------------
(* Properties *)

Key == last.args[1]

Value == last.args[2]

\* What EnvGet (k) returns in environment E when the host and the allocator
\* do not fail during it.
EnvGetIn(E, k) == posacs_getenv(E, <<k>>, HostOk).ret

\* The memory-full condition with a nil payload.
MemoryFull == non_local_exit_signal(intern("memory-full"), LISP_NIL)

\* A name that POSIX accepts: not empty, no '=', and no NUL inside.
IsVariableName(b) == ValidName(b) /\ CStr(b) = b

\* C1: round trip.  When EnvSet (k, v) returned t, an immediately following
\* EnvGet (k) returns a host string equal to v, nothing truncated.
C1_RoundTrip ==
    (last.op = "setenv" /\ last.ret = LISP_T) => EnvGetIn(environ, Key) = Value

\* C2: every marshaled buffer is freed before the call returns: the last
\* call left none allocated, and after any sequence of calls no buffer is
\* live.
C2_NoLiveBuffers == last.leaked = 0 /\ live = 0

\* C3: last write wins.  When k is bound (as an earlier EnvSet (k, v1) leaves
\* it) and EnvSet (k, v2) returned t, EnvGet (k) returns v2.
C3_LastWriteWins ==
    (/\ last.op = "setenv"
     /\ last.ret = LISP_T
     /\ EnvGetIn(last.env, Key) # LISP_NIL) => EnvGetIn(environ, Key) = Value

\* C4 as stated: after EnvUnset (k) for any string k, with the extraction of k
\* not failing, EnvGet (k) returns nil.
C4_UnsetAnyString ==
    (last.op = "unsetenv" /\ LISP_IS_STRING(Key) /\ last.x0.how = "ok")
        => EnvGetIn(environ, Key) = LISP_NIL

\* C4 amended: after EnvUnset (k) returned t, EnvGet (k) returns nil, whatever
\* k was bound to before and whatever the host does during the EnvGet.
C4_UnsetThenGetNil ==
    (last.op = "unsetenv" /\ last.ret = LISP_T)
        => \A h \in HostBehaviours1 :
              posacs_getenv(environ, <<Key>>, h).ret = LISP_NIL

\* A bound k was unset with success.
C4_Witness ==
    /\ last.op = "unsetenv"
    /\ last.ret = LISP_T
    /\ EnvGetIn(last.env, Key) # LISP_NIL

\* The last call was given a non-string where a string is required.
TypeMismatch ==
    \/ last.op \in {"getenv", "unsetenv"} /\ ~LISP_IS_STRING(Key)
    \/ last.op = "setenv" /\ (~LISP_IS_STRING(Key) \/ ~LISP_IS_STRING(Value))

\* C5 as stated: a type mismatch returns nil, raises no host condition and
\* leaves the environment as it was.
C5_MismatchNeverRaises ==
    TypeMismatch =>
        /\ last.ret = LISP_NIL
        /\ last.exit = NoExit
        /\ environ = last.env

\* C5 amended: a type mismatch returns nil and leaves the environment as it
\* was; it raises no host condition, except that EnvSet with a string first
\* argument and a non-string second one raises memory-full when the
\* allocation of the first argument's buffer fails.
C5_MismatchSoftFailure ==
    TypeMismatch =>
        /\ last.ret = LISP_NIL
        /\ environ = last.env
        /\ last.exit # NoExit =>
              /\ last.op = "setenv"
              /\ LISP_IS_STRING(Key)
              /\ last.x0.how = "malloc"
              /\ last.exit = MemoryFull

\* EnvSet, in an environment that is not empty, extracted its name and found
\* a non-string value.
C5_Witness ==
    /\ last.op = "setenv"
    /\ LISP_IS_STRING(Key)
    /\ ~LISP_IS_STRING(Value)
    /\ last.x0.how = "ok"
    /\ last.env # {}

\* The allocation of a marshaling buffer failed during the last call.
AllocationFailed ==
    \/ last.x0.called /\ last.x0.how = "malloc"
    \/ last.x1.called /\ last.x1.how = "malloc"

\* C6: when the allocation of a marshaling buffer fails in EnvGet or EnvSet
\* (either argument), the call ends with the memory-full condition raised,
\* payload nil, and the environment is as it was.
C6_AllocationFailureRaises ==
    (last.op \in {"getenv", "setenv"} /\ AllocationFailed) =>
        /\ last.exit = MemoryFull
        /\ last.exit.kind = "signal"
        /\ last.exit.sym = intern("memory-full")
        /\ last.exit.data = LISP_NIL
        /\ environ = last.env

\* The allocation for the value of EnvSet failed, the name already extracted.
C6_Witness ==
    /\ last.op = "setenv"
    /\ last.x0.how = "ok"
    /\ last.x1.called
    /\ last.x1.how = "malloc"

\* The fset calls that bind name: how many, and with which arity and function.
BindingsOf(name) == {i \in DOMAIN fsets : fsets[i].name = name}

BoundOnce(name, arity, function) ==
    /\ Cardinality(BindingsOf(name)) = 1
    /\ \A i \in BindingsOf(name) :
          /\ fsets[i].min = arity
          /\ fsets[i].max = arity
          /\ fsets[i].function = function

\* The size fields of the load are sizes: counts of bytes, not negative, as
\* a host stores them (the sizeof of its own struct).
SizesAreSizes == sizes[1] >= 0 /\ sizes[2] >= 0

\* C7: given handles whose size fields are sizes, the load returns 1 when the
\* runtime handle is too small (its size is below the size of the struct),
\* else 2 when the environment handle is too small, else 0.  On every load,
\* with 1 or 2 nothing was bound, and with 0 exactly the three functions were
\* bound, once each, to their own operation and arity.
C7_LoadResult ==
    rc # NotLoaded =>
        /\ SizesAreSizes =>
              rc = (IF sizes[1] < RuntimeSizeof THEN 1
                    ELSE IF sizes[2] < EnvSizeof THEN 2 ELSE 0)
        /\ rc \in {0, 1, 2}
        /\ rc \in {1, 2} => fsets = <<>>
        /\ rc = 0 =>
              /\ Len(fsets) = 3
              /\ BoundOnce("posacs--getenv", 1, "posacs_getenv")
              /\ BoundOnce("posacs--setenv", 2, "posacs_setenv")
              /\ BoundOnce("posacs--unsetenv", 1, "posacs_unsetenv")

\* A load with a large enough runtime handle and too small an environment.
C7_Witness == rc = 2 /\ sizes[1] > RuntimeSizeof /\ fsets = <<>>

\* C8 as stated: EnvUnset (k) for a string k that is a valid variable name
\* returns t; it returns nil only when the POSIX unset call reported failure.
C8_UnsetAlwaysTrue ==
    (last.op = "unsetenv" /\ LISP_IS_STRING(Key)) =>
        /\ IsVariableName(Key.bytes) => last.ret = LISP_T
        /\ last.ret = LISP_NIL => (last.posix = "unsetenv" /\ last.res # 0)

\* C8 amended: EnvUnset (k) for a string k that is a valid variable name
\* returns t, bound or not, when the extraction of k succeeds; it returns nil
\* only when the extraction failed or the POSIX unset call reported failure.
C8_UnsetTrueWhenExtracted ==
    (last.op = "unsetenv" /\ LISP_IS_STRING(Key)) =>
        /\ (IsVariableName(Key.bytes) /\ last.x0.how = "ok") => last.ret = LISP_T
        /\ last.ret = LISP_NIL =>
              \/ last.x0.how # "ok" /\ last.posix = "none"
              \/ last.posix = "unsetenv" /\ last.res # 0

\* EnvUnset of a valid name that was not bound returned t.
C8_Witness ==
    /\ last.op = "unsetenv"
    /\ LISP_IS_STRING(Key)
    /\ IsVariableName(Key.bytes)
    /\ EnvGetIn(last.env, Key) = LISP_NIL
    /\ last.ret = LISP_T

\* The host's copy primitive failed during extraction x.
CopyFailed(x) == x.called /\ x.how \in {"copy_size", "copy_fill"}

\* C9: when the host's copy primitive fails in either phase, the extraction
\* returns null, leaves no buffer allocated and raises nothing; the call
\* returns nil without a POSIX call and the environment is as it was, also in
\* EnvSet when only the extraction of the value failed.
C9_CopyFailure ==
    \A x \in {last.x0, last.x1} :
        CopyFailed(x) =>
            /\ x.ptr = NULLPTR
            /\ Kept(x) = 0
            /\ x.exit = NoExit
            /\ last.exit = NoExit
            /\ last.ret = LISP_NIL
            /\ last.posix = "none"
            /\ environ = last.env

\* EnvSet extracted the name of a bound variable and the fill of the value
\* failed.
C9_Witness ==
    /\ last.op = "setenv"
    /\ last.x0.how = "ok"
    /\ last.x1.called
    /\ last.x1.how = "copy_fill"
    /\ EnvGetIn(last.env, Key) # LISP_NIL

\* C10: frame.  EnvGet leaves the environment as it was; EnvSet (k, v) and
\* EnvUnset (k) leave EnvGet (j) as it was for every variable name j other
\* than k, whether the call succeeded or failed.
C10_Frame ==
    /\ last.op = "getenv" => environ = last.env
    /\ last.op \in {"setenv", "unsetenv"} =>
          \A j \in NameArgs :
              (LISP_IS_STRING(j) /\ IsVariableName(j.bytes) /\ j # Key) =>
                  EnvGetIn(environ, j) = EnvGetIn(last.env, j)

====
